---- MODULE Spec2Model ----
(***************************************************************************)
(* egui_gestures: the single-stroke recogniser of src/src/gestures.rs.     *)
(*                                                                         *)
(* The recogniser computes in Rust f32.  The model computes in IEEE-754    *)
(* binary32 too (round to nearest, ties to even, subnormals, infinities,   *)
(* NaN): rounding, overflow and underflow are what decides most of the     *)
(* properties below.                                                       *)
(*                                                                         *)
(* An f32 is one integer key k.  k >= 0 is the 31-bit magnitude pattern    *)
(* (8 exponent bits, 23 fraction bits) of a value with sign bit 0; k < 0   *)
(* is the value with sign bit 1 and magnitude pattern -k-1.  So 0 is +0.0, *)
(* -1 is -0.0, 1065353216 is 1.0, 2139095040 is +infinity and every key    *)
(* whose magnitude is above that is a NaN.                                 *)
(***************************************************************************)
EXTENDS Integers, Sequences, FiniteSets, TLC

Hidden == 2^23
InfMag == 255 * 2^23
NaN == InfMag + 2^22
Mag(k) == IF k < 0 THEN -k - 1 ELSE k
Sgn(k) == IF k < 0 THEN 1 ELSE 0
Pack(s, b) == IF s = 1 THEN -b - 1 ELSE b
IsNaN(k) == Mag(k) > InfMag
IsInf(k) == Mag(k) = InfMag
IsZero(k) == k = 0 \/ k = -1
IsFinite(k) == Mag(k) < InfMag
Neg(k) == -k - 1
Abs(k) == IF k < 0 THEN -k - 1 ELSE k
\* the integer mantissa of a magnitude pattern and the exponent of its lowest bit
Man(b) == IF b < 8388608 THEN b ELSE 8388608 + (b % 8388608)
Exp(b) == IF b < 8388608 THEN -149 ELSE (b \div 8388608) - 150

\* the number of bits of m, 0 <= m < 2^31
BitLen(m) ==
    IF m < 65536
    THEN IF m < 256
         THEN IF m < 16
              THEN IF m < 4 THEN (IF m < 2 THEN m ELSE 2) ELSE (IF m < 8 THEN 3 ELSE 4)
              ELSE IF m < 64 THEN (IF m < 32 THEN 5 ELSE 6) ELSE (IF m < 128 THEN 7 ELSE 8)
         ELSE IF m < 4096
              THEN IF m < 1024 THEN (IF m < 512 THEN 9 ELSE 10) ELSE (IF m < 2048 THEN 11 ELSE 12)
              ELSE IF m < 16384 THEN (IF m < 8192 THEN 13 ELSE 14) ELSE (IF m < 32768 THEN 15 ELSE 16)
    ELSE IF m < 16777216
         THEN IF m < 1048576
              THEN IF m < 262144 THEN (IF m < 131072 THEN 17 ELSE 18) ELSE (IF m < 524288 THEN 19 ELSE 20)
              ELSE IF m < 4194304 THEN (IF m < 2097152 THEN 21 ELSE 22) ELSE (IF m < 8388608 THEN 23 ELSE 24)
         ELSE IF m < 268435456
              THEN IF m < 67108864 THEN (IF m < 33554432 THEN 25 ELSE 26) ELSE (IF m < 134217728 THEN 27 ELSE 28)
              ELSE IF m < 1073741824 THEN (IF m < 536870912 THEN 29 ELSE 30) ELSE 31

(* The f32 nearest to (-1)^s * M * 2^E, ties to even, for 0 < M < 2^30.  A set
   lowest bit of M may stand for any nonzero remainder below it; M then has at
   least 26 bits, so that bit never is the rounding bit. *)
RoundBits(s, b) == Pack(s, IF b > InfMag THEN InfMag ELSE b)
\* q is M shifted right to the 24 bits kept, r the bits shifted out, h half a unit
RoundShifted(s, Et, q, r, h) ==
    RoundBits(s, ((Et + 149) * 8388608) + q + (IF r > h \/ (r = h /\ q % 2 = 1) THEN 1 ELSE 0))
\* Et is the exponent of the lowest bit kept, L the number of bits of M
RoundAt(s, M, E, L, Et) ==
    IF Et > 104 THEN Pack(s, InfMag)
    ELSE IF Et <= E THEN Pack(s, ((Et + 149) * 8388608) + (M * 2^(E - Et)))
    ELSE IF Et - E > L THEN Pack(s, 0)
    ELSE RoundShifted(s, Et, M \div 2^(Et - E), M % 2^(Et - E), 2^(Et - E - 1))
RoundLen(s, M, E, L) == RoundAt(s, M, E, L, IF E + L - 24 < -149 THEN -149 ELSE E + L - 24)
RoundPack(s, M, E) == RoundLen(s, M, E, BitLen(M))

\* `n as f32` for an integer n of fewer than 30 bits
FromInt(n) == IF n = 0 THEN 0 ELSE IF n < 0 THEN RoundPack(1, -n, 0) ELSE RoundPack(0, n, 0)

\* q, with a lost nonzero remainder kept in its lowest bit
Jam(q, lost) == IF lost /\ q % 2 = 0 THEN q + 1 ELSE q

\* m with three guard bits, shifted right by d; a lost nonzero remainder is kept
\* in the lowest bit
ShiftJam(m, d) ==
    IF d = 0 THEN m * 8
    ELSE IF d > 27 THEN 1
    ELSE Jam((m * 8) \div 2^d, (m * 8) % 2^d # 0)

\* the sum of the aligned magnitudes X and Y of signs sa and sb, whose lowest
\* bit has exponent e - 3
AddAligned(sa, sb, X, Y, e) ==
    IF sa # sb /\ X = Y THEN 0
    ELSE RoundPack(IF sa = sb \/ X > Y THEN sa ELSE sb,
                   IF sa = sb THEN X + Y ELSE IF X > Y THEN X - Y ELSE Y - X,
                   e - 3)
AddShifted(a, b, ea, eb, e) ==
    AddAligned(Sgn(a), Sgn(b), ShiftJam(Man(Mag(a)), e - ea), ShiftJam(Man(Mag(b)), e - eb), e)
AddExponents(a, b, ea, eb) == AddShifted(a, b, ea, eb, IF ea > eb THEN ea ELSE eb)
AddFinite(a, b) ==
    IF IsZero(a) /\ IsZero(b) THEN (IF a = -1 /\ b = -1 THEN a ELSE 0)
    ELSE IF IsZero(a) THEN b
    ELSE IF IsZero(b) THEN a
    ELSE AddExponents(a, b, Exp(Mag(a)), Exp(Mag(b)))

\* a + b
Add(a, b) ==
    IF IsFinite(a) /\ IsFinite(b) THEN AddFinite(a, b)
    ELSE IF IsNaN(a) \/ IsNaN(b) THEN NaN
    ELSE IF IsInf(a) THEN (IF IsInf(b) /\ Sgn(a) # Sgn(b) THEN NaN ELSE a)
    ELSE b

\* a - b
Sub(a, b) == Add(a, Neg(b))

\* the mantissa shifted left to 24 bits, and the exponent of its lowest bit then
NormM(b) == Man(b) * 2^(24 - BitLen(Man(b)))
NormE(b) == Exp(b) - (24 - BitLen(Man(b)))

\* the 48-bit product of two 24-bit mantissas, from their 12-bit halves; its
\* upper 28 bits are kept and the rest is jammed
MulWords(s, hi, lo, E) == RoundPack(s, Jam((hi * 16) + (lo \div 1048576), lo % 1048576 # 0), E)
MulLow(s, h, t, E) == MulWords(s, h + (t \div 16777216), t % 16777216, E)
MulMid(s, hh, mid, ll, E) == MulLow(s, hh + (mid \div 4096), ((mid % 4096) * 4096) + ll, E)
MulHalves(s, ah, al, bh, bl, E) == MulMid(s, ah * bh, (ah * bl) + (al * bh), al * bl, E)
MulMantissas(s, ma, mb, E) ==
    MulHalves(s, ma \div 4096, ma % 4096, mb \div 4096, mb % 4096, E)
MulFinite(s, ba, bb) == MulMantissas(s, NormM(ba), NormM(bb), NormE(ba) + NormE(bb) + 20)

\* a * b
Mul(a, b) ==
    LET s == IF Sgn(a) = Sgn(b) THEN 0 ELSE 1
    IN  IF IsNaN(a) \/ IsNaN(b) THEN NaN
        ELSE IF IsInf(a) \/ IsInf(b)
             THEN (IF IsZero(a) \/ IsZero(b) THEN NaN ELSE Pack(s, InfMag))
        ELSE IF IsZero(a) \/ IsZero(b) THEN Pack(s, 0)
        ELSE MulFinite(s, Mag(a), Mag(b))

\* long division by mb: n more digits of 7 bits after quotient q, remainder r
RECURSIVE DivDigits(_, _, _, _)
DivDigits(q, r, mb, n) ==
    IF n = 0 THEN <<q, r>>
    ELSE DivDigits((q * 128) + ((r * 128) \div mb), (r * 128) % mb, mb, n - 1)
DivRound(s, qr, E) == RoundPack(s, Jam(qr[1], qr[2] # 0), E)
DivMantissas(s, ma, mb, E) == DivRound(s, DivDigits(ma \div mb, ma % mb, mb, 4), E)
DivFinite(s, ba, bb) == DivMantissas(s, NormM(ba), NormM(bb), NormE(ba) - NormE(bb) - 28)

\* a / b
Div(a, b) ==
    LET s == IF Sgn(a) = Sgn(b) THEN 0 ELSE 1
    IN  IF IsNaN(a) \/ IsNaN(b) THEN NaN
        ELSE IF IsInf(a) THEN (IF IsInf(b) THEN NaN ELSE Pack(s, InfMag))
        ELSE IF IsInf(b) THEN Pack(s, 0)
        ELSE IF IsZero(b) THEN (IF IsZero(a) THEN NaN ELSE Pack(s, InfMag))
        ELSE IF IsZero(a) THEN Pack(s, 0)
        ELSE DivFinite(s, Mag(a), Mag(b))

\* one digit of the square root: st is <<root so far, remainder so far>> and
\* the next bit pair of m is pair i, a zero pair below pair 0
SqrtStep(st, rem2, t) ==
    IF rem2 >= t THEN <<(2 * st[1]) + 1, rem2 - t>> ELSE <<2 * st[1], rem2>>
SqrtDigit(m, i, st) ==
    SqrtStep(st, (st[2] * 4) + (IF i >= 0 THEN (m \div 4^i) % 4 ELSE 0), (4 * st[1]) + 1)

\* the digits for the bit pairs hi down to lo, the upper half of the pairs
\* before the lower half
RECURSIVE SqrtDigits(_, _, _, _)
SqrtDigits(m, hi, lo, st) ==
    IF hi = lo
    THEN SqrtDigit(m, hi, st)
    ELSE LET mid   == (hi + lo) \div 2
             upper == SqrtDigits(m, hi, mid + 1, st)
         IN  IF upper = upper THEN SqrtDigits(m, mid, lo, upper) ELSE upper

\* the square root of the mantissa: its bit pairs, then fourteen zero pairs; a
\* nonzero remainder is kept in the lowest bit of the root
SqrtRound(st, e) == RoundPack(0, Jam(st[1], st[2] # 0), (e \div 2) - 14)
SqrtEven(m, e) == SqrtRound(SqrtDigits(m, 12, -14, <<0, 0>>), e)
SqrtMantissa(m, e) == IF e % 2 = 0 THEN SqrtEven(m, e) ELSE SqrtEven(2 * m, e - 1)
SqrtFinite(b) == SqrtMantissa(NormM(b), NormE(b))

\* a.sqrt()
Sqrt(a) ==
    IF IsNaN(a) THEN NaN
    ELSE IF IsZero(a) THEN a
    ELSE IF a < 0 THEN NaN
    ELSE IF IsInf(a) THEN a
    ELSE SqrtFinite(a)

\* the value order of two non-NaN keys: -0.0 and +0.0 both count as 0
Ord(k) == IF k < 0 THEN k + 1 ELSE k
\* a == b, a < b, a <= b of f32 (PartialEq, PartialOrd): false when either is NaN
Eq(a, b) == ~IsNaN(a) /\ ~IsNaN(b) /\ Ord(a) = Ord(b)
Lt(a, b) == ~IsNaN(a) /\ ~IsNaN(b) /\ Ord(a) < Ord(b)
Le(a, b) == ~IsNaN(a) /\ ~IsNaN(b) /\ Ord(a) <= Ord(b)
\* f32::min and f32::max: a NaN operand is ignored.  Of two zeros of opposite
\* sign either may be returned by the platform; no input below holds -0.0.
Min(a, b) == IF IsNaN(a) THEN b ELSE IF IsNaN(b) THEN a ELSE IF Lt(b, a) THEN b ELSE a
Max(a, b) == IF IsNaN(a) THEN b ELSE IF IsNaN(b) THEN a ELSE IF Lt(a, b) THEN b ELSE a

(***************************************************************************)
(* src/src/gestures.rs.  A point is <<x, y>>, a path is a sequence of      *)
(* points, Option<T> is a sequence of at most one T.                       *)
(***************************************************************************)
GESTURE_RESOLUTION == 128
None == <<>>
Some(v) == <<v>>
Two == FromInt(2)
One == FromInt(1)

\* .collect::<Vec<_>>(): the elements of s, every one computed, as a sequence
Collect(s) == s \o <<>>

\* (f32, f32) == (f32, f32)
PointEq(p, q) == Eq(p[1], q[1]) /\ Eq(p[2], q[2])

\* a dedup that collapses nothing
NoDedup(s) == s

\* Vec::dedup: of each run of consecutive equal elements the first is kept
RECURSIVE dedup(_)
dedup(s) ==
    IF Len(s) < 2 THEN s
    ELSE LET d == dedup(SubSeq(s, 1, Len(s) - 1))
         IN  IF PointEq(d[Len(d)], s[Len(s)]) THEN d ELSE Append(d, s[Len(s)])

\* iter().map(|p| p.c).reduce(f32::min) and reduce(f32::max), from element i on
RECURSIVE ReduceMin(_, _, _, _)
ReduceMin(s, c, i, acc) == IF i > Len(s) THEN acc ELSE ReduceMin(s, c, i + 1, Min(acc, s[i][c]))
RECURSIVE ReduceMax(_, _, _, _)
ReduceMax(s, c, i, acc) == IF i > Len(s) THEN acc ELSE ReduceMax(s, c, i + 1, Max(acc, s[i][c]))

x_min(d) == ReduceMin(d, 1, 2, d[1][1])
x_max(d) == ReduceMax(d, 1, 2, d[1][1])
y_min(d) == ReduceMin(d, 2, 2, d[1][2])
y_max(d) == ReduceMax(d, 2, 2, d[1][2])
\* the centre of line 40 with the sum written as a difference
x_center_of_difference(d) == Div(Sub(x_max(d), x_min(d)), Two)
x_center(d) == Div(Add(x_max(d), x_min(d)), Two)
y_center(d) == Div(Add(y_max(d), y_min(d)), Two)
x_half_size(d) == Div(Sub(x_max(d), x_min(d)), Two)
y_half_size(d) == Div(Sub(y_max(d), y_min(d)), Two)
half_size(d) == Max(x_half_size(d), y_half_size(d))

\* the normalized path of the deduplicated positions d
NormalizedPath(d) ==
    LET xc == x_center(d)
        yc == y_center(d)
        h  == half_size(d)
    IN  Collect([i \in 1..Len(d) |-> <<Div(Sub(d[i][1], xc), h), Div(Sub(d[i][2], yc), h)>>])

segment_length(start_point, end_point) ==
    LET dx == Sub(end_point[1], start_point[1])
        dy == Sub(end_point[2], start_point[2])
    IN  Sqrt(Add(Mul(dx, dx), Mul(dy, dy)))

\* the segments of normalized path n from window i on, total being the
\* total_distance accumulated before it
RECURSIVE SegmentsFrom(_, _, _)
SegmentsFrom(n, i, total) ==
    IF i >= Len(n) THEN <<>>
    ELSE LET l == segment_length(n[i], n[i + 1])
         IN  <<[start_point |-> n[i], end_point |-> n[i + 1], segment_length |-> l,
                distance_from_start |-> total]>> \o SegmentsFrom(n, i + 1, Add(total, l))
Segments(n) == SegmentsFrom(n, 1, 0)

\* total_distance once the segments are collected
TotalDistance(segs) ==
    IF segs = <<>> THEN 0
    ELSE Add(segs[Len(segs)].distance_from_start, segs[Len(segs)].segment_length)

\* (distance_from_start..=distance_from_start + segment_length).contains(&d)
Contains(seg, d) ==
    Le(seg.distance_from_start, d) /\ Le(d, Add(seg.distance_from_start, seg.segment_length))

\* segments.iter().find(..): the index of the first segment containing d, 0 for None
Find(segs, d) ==
    LET S == {j \in 1..Len(segs) : Contains(segs[j], d)}
    IN  IF S = {} THEN 0 ELSE CHOOSE j \in S : \A k \in S : j <= k

Interpolate(seg, d) ==
    LET t == Div(Sub(d, seg.distance_from_start), seg.segment_length)
        u == Sub(One, t)
    IN  <<Add(Mul(seg.start_point[1], u), Mul(seg.end_point[1], t)),
          Add(Mul(seg.start_point[2], u), Mul(seg.end_point[2], t))>>

\* i as f32 / (GESTURE_RESOLUTION - 1) as f32
Fraction(i) == Div(FromInt(i), FromInt(GESTURE_RESOLUTION - 1))

\* the target arc length t * total_distance of sample i
Target(segs, i) == Mul(Fraction(i), TotalDistance(segs))

\* sample i of the resampling, None where find(..) finds no segment
Sample(segs, i) ==
    LET d == Target(segs, i)
        j == Find(segs, d)
    IN  IF j = 0 THEN None ELSE Some(Interpolate(segs[j], d))

\* the samples 0..GESTURE_RESOLUTION over the segments, each an Option
Samples(segs) == Collect([i \in 1..GESTURE_RESOLUTION |-> Sample(segs, i - 1)])

\* PreparedGesture::distance; the sum is accumulated in index order, the left
\* half of each index range before its right half
RECURSIVE DistanceFold(_, _, _, _, _)
DistanceFold(a, b, lo, hi, acc) ==
    IF lo = hi
    THEN Add(Add(acc, Abs(Sub(a[lo][1], b[lo][1]))), Abs(Sub(a[lo][2], b[lo][2])))
    ELSE LET mid  == (lo + hi) \div 2
             left == DistanceFold(a, b, lo, mid, acc)
         IN  IF left = left THEN DistanceFold(a, b, mid + 1, hi, left) ELSE left
distance(a, b) == DistanceFold(a, b, 1, GESTURE_RESOLUTION, 0)

\* PreparedGesture::from_positions as a function of its argument
from_positions(path) ==
    LET d == dedup(path)
    IN  IF Len(d) < 2 THEN [ret |-> "None"]
        ELSE IF Eq(half_size(d), 0) THEN [ret |-> "panic", at |-> "assert_ne"]
        ELSE LET s == Samples(Segments(NormalizedPath(d)))
             IN  IF \E i \in 1..GESTURE_RESOLUTION : s[i] = None
                 THEN [ret |-> "panic", at |-> "unwrap"]
                 ELSE [ret |-> "Some", gesture |-> Collect([i \in 1..GESTURE_RESOLUTION |-> s[i][1]])]

\* the gesture! macro
gesture(path) == from_positions(path).gesture
P(x, y) == <<FromInt(x), FromInt(y)>>

\* the rows of the GESTURES table: name and control points
Table == <<
    <<"down",           <<P(0, 0), P(0, 100)>>>>,
    <<"down-left",      <<P(0, 0), P(0, 100), P(-100, 100)>>>>,
    <<"down-right",     <<P(0, 0), P(0, 100), P(100, 100)>>>>,
    <<"down-up",        <<P(0, 0), P(0, 100), P(0, 0)>>>>,
    <<"left",           <<P(0, 0), P(-100, 0)>>>>,
    <<"left-down",      <<P(0, 0), P(-100, 0), P(-100, 100)>>>>,
    <<"left-right",     <<P(0, 0), P(-100, 0), P(0, 0)>>>>,
    <<"left-up",        <<P(0, 0), P(-100, 0), P(-100, -100)>>>>,
    <<"right",          <<P(0, 0), P(100, 0)>>>>,
    <<"right-down",     <<P(0, 0), P(100, 0), P(100, 100)>>>>,
    <<"right-left",     <<P(0, 0), P(100, 0), P(0, 0)>>>>,
    <<"right-up",       <<P(0, 0), P(100, 0), P(100, -100)>>>>,
    <<"up",             <<P(0, 0), P(0, -100)>>>>,
    <<"up-down",        <<P(0, 0), P(0, -100), P(0, 0)>>>>,
    <<"up-left",        <<P(0, 0), P(0, -100), P(-100, -100)>>>>,
    <<"up-right",       <<P(0, 0), P(0, -100), P(100, -100)>>>>,
    <<"diag-downleft",  <<P(0, 0), P(-100, 100)>>>>,
    <<"diag-downright", <<P(0, 0), P(100, 100)>>>>,
    <<"diag-upleft",    <<P(0, 0), P(-100, -100)>>>>,
    <<"diag-upright",   <<P(0, 0), P(100, -100)>>>>,
    <<"rectangle",      <<P(0, 0), P(100, 0), P(100, 100), P(0, 100)>>>>,
    <<"rectangle",      <<P(0, 0), P(0, 100), P(100, 100), P(100, 0)>>>>,
    <<"arrow-up",       <<P(0, 100), P(50, 0), P(100, 100)>>>>,
    <<"arrow-down",     <<P(0, 0), P(50, 100), P(100, 0)>>>>,
    <<"arrow-left",     <<P(100, 0), P(0, 50), P(100, 100)>>>>,
    <<"arrow-right",    <<P(0, 0), P(100, 50), P(0, 100)>>>>,
    <<"tri-up",         <<P(0, 100), P(50, 0), P(100, 100), P(0, 100)>>>>,
    <<"tri-down",       <<P(0, 0), P(50, 100), P(100, 0), P(0, 0)>>>>,
    <<"tri-left",       <<P(100, 0), P(0, 50), P(100, 100), P(100, 0)>>>>,
    <<"tri-right",      <<P(0, 0), P(100, 50), P(0, 100), P(0, 0)>>>>,
    <<"n",              <<P(0, 100), P(0, 0), P(100, 100), P(100, 0)>>>>,
    <<"t",              <<P(0, 0), P(100, 0), P(50, 0), P(50, 100)>>>>,
    <<"x",              <<P(0, 0), P(100, 100), P(100, 0), P(0, 100)>>>>,
    <<"z",              <<P(0, 0), P(100, 0), P(0, 100), P(100, 100)>>>>
>>

\* the value the initializer of the lazy static computes:
\* Vec<(&'static str, PreparedGesture)>
GESTURES == Collect([k \in 1..Len(Table) |-> <<Table[k][1], gesture(Table[k][2])>>])

\* the opposite order: OrderedFloat(a) < OrderedFloat(b)
OrderedLess(a, b) ==
    IF IsNaN(b) THEN ~IsNaN(a) ELSE IF IsNaN(a) THEN FALSE ELSE (IF a < 0 THEN a + 1 ELSE a) < (IF b < 0 THEN b + 1 ELSE b)

\* OrderedFloat(a) > OrderedFloat(b): NaN is the greatest key and equals itself
OrderedGreater(a, b) ==
    IF IsNaN(a) THEN ~IsNaN(b) ELSE IF IsNaN(b) THEN FALSE ELSE Ord(a) > Ord(b)

\* a scan that keeps the last of equal minima
RECURSIVE MinByKeyLast(_, _, _, _)
MinByKeyLast(ks, lo, hi, best) ==
    IF lo = hi
    THEN (IF OrderedLess(ks[best], ks[lo]) THEN best ELSE lo)
    ELSE LET mid  == (lo + hi) \div 2
             left == MinByKeyLast(ks, lo, mid, best)
         IN  IF left = left THEN MinByKeyLast(ks, mid + 1, hi, left) ELSE left

\* Iterator::min_by_key over the keys ks[lo..hi] in index order, best being
\* the index kept so far: it is replaced only by a strictly smaller key, so the
\* first of equal minima is returned.  The left half of the index range is
\* scanned before the right half
RECURSIVE MinByKey(_, _, _, _)
MinByKey(ks, lo, hi, best) ==
    IF lo = hi
    THEN (IF OrderedGreater(ks[best], ks[lo]) THEN lo ELSE best)
    ELSE LET mid  == (lo + hi) \div 2
             left == MinByKey(ks, lo, mid, best)
         IN  IF left = left THEN MinByKey(ks, mid + 1, hi, left) ELSE left

\* the keys of the scan: the distance of the input gesture to every entry of
\* the collection
Keys(gestures, input_gesture) ==
    Collect([k \in 1..Len(gestures) |-> distance(input_gesture, gestures[k][2])])

(***************************************************************************)
(* The program: threads that call PreparedGesture::from_positions or       *)
(* gesture_from_positions, one call after the other.  A panic ends the     *)
(* thread.  The coordinates passed in are finite f32 values.               *)
(***************************************************************************)
VARIABLES
    script,           \* per thread, the calls it still has to make
    pc,               \* per thread, where it is in its call
    caller,           \* per thread, the function its call entered
    positions,        \* per thread, the argument of its call
    dedup_positions,  \* per thread, line 22
    normalized_path,  \* per thread, line 46
    segments,         \* per thread, line 53
    resampled_path,   \* per thread, line 71
    prepared,         \* per thread, what from_positions returned
    keys,             \* per thread, the distances its scan computed
    result,           \* per thread, what its call returns
    panic,            \* per thread, the panic that ended it
    returned,         \* per thread, its finished calls: function, argument, value
    seen,             \* per thread, the collection its last scan iterated
    once,             \* the state of the lazy static's Once
    lazy,             \* the value stored in the lazy static
    builds            \* how many times the initializer has run

locals == <<dedup_positions, normalized_path, segments, resampled_path>>
statics == <<once, lazy, builds>>
vars == <<script, pc, caller, positions, dedup_positions, normalized_path, segments,
          resampled_path, prepared, keys, result, panic, returned, seen, once, lazy, builds>>

Threads == DOMAIN pc
CallOf(fn, path) == [fn |-> fn, positions |-> path]

\* the state after construction, given the scripts the threads may run
Start(scripts) ==
    /\ script \in scripts
    /\ pc = [t \in DOMAIN script |-> "idle"]
    /\ caller = [t \in DOMAIN script |-> ""]
    /\ positions = [t \in DOMAIN script |-> <<>>]
    /\ dedup_positions = [t \in DOMAIN script |-> <<>>]
    /\ normalized_path = [t \in DOMAIN script |-> <<>>]
    /\ segments = [t \in DOMAIN script |-> <<>>]
    /\ resampled_path = [t \in DOMAIN script |-> <<>>]
    /\ prepared = [t \in DOMAIN script |-> None]
    /\ keys = [t \in DOMAIN script |-> <<>>]
    /\ result = [t \in DOMAIN script |-> None]
    /\ panic = [t \in DOMAIN script |-> ""]
    /\ returned = [t \in DOMAIN script |-> <<>>]
    /\ seen = [t \in DOMAIN script |-> <<>>]
    /\ once = "incomplete"
    /\ lazy = <<>>
    /\ builds = 0

\* the thread makes its next call
Call(t) ==
    /\ pc[t] = "idle"
    /\ script[t] # <<>>
    /\ script' = [script EXCEPT ![t] = Tail(script[t])]
    /\ caller' = [caller EXCEPT ![t] = Head(script[t]).fn]
    /\ positions' = [positions EXCEPT ![t] = Head(script[t]).positions]
    /\ pc' = [pc EXCEPT ![t] = "dedup"]
    /\ dedup_positions' = [dedup_positions EXCEPT ![t] = <<>>]
    /\ normalized_path' = [normalized_path EXCEPT ![t] = <<>>]
    /\ segments' = [segments EXCEPT ![t] = <<>>]
    /\ resampled_path' = [resampled_path EXCEPT ![t] = <<>>]
    /\ prepared' = [prepared EXCEPT ![t] = None]
    /\ keys' = [keys EXCEPT ![t] = <<>>]
    /\ result' = [result EXCEPT ![t] = None]
    /\ UNCHANGED <<panic, returned, seen, statics>>

\* where from_positions returns to: its direct caller takes the value as the
\* result of the call, gesture_from_positions goes on at line 98
ReturnTo(t) == IF caller[t] = "from_positions" THEN "return" ELSE "try"

\* lines 22-31
DedupPositions(t) ==
    /\ pc[t] = "dedup"
    /\ dedup_positions' = [dedup_positions EXCEPT ![t] = dedup(positions[t])]
    /\ IF Len(dedup(positions[t])) < 2
       THEN /\ prepared' = [prepared EXCEPT ![t] = None]
            /\ pc' = [pc EXCEPT ![t] = ReturnTo(t)]
       ELSE /\ pc' = [pc EXCEPT ![t] = "normalize"]
            /\ UNCHANGED prepared
    /\ UNCHANGED <<script, caller, positions, normalized_path, segments, resampled_path,
                   keys, result, panic, returned, seen, statics>>

\* lines 33-50
Normalize(t) ==
    /\ pc[t] = "normalize"
    /\ IF Eq(half_size(dedup_positions[t]), 0)
       THEN /\ panic' = [panic EXCEPT ![t] = "assert_ne!(half_size, 0.0)"]
            /\ pc' = [pc EXCEPT ![t] = "panicked"]
            /\ UNCHANGED normalized_path
       ELSE /\ normalized_path' = [normalized_path EXCEPT ![t] = NormalizedPath(dedup_positions[t])]
            /\ pc' = [pc EXCEPT ![t] = "segments"]
            /\ UNCHANGED panic
    /\ UNCHANGED <<script, caller, positions, dedup_positions, segments, resampled_path,
                   prepared, keys, result, returned, seen, statics>>

\* lines 52-69
CollectSegments(t) ==
    /\ pc[t] = "segments"
    /\ segments' = [segments EXCEPT ![t] = Segments(normalized_path[t])]
    /\ pc' = [pc EXCEPT ![t] = "resample"]
    /\ UNCHANGED <<script, caller, positions, dedup_positions, normalized_path,
                   resampled_path, prepared, keys, result, panic, returned, seen, statics>>

\* lines 71-93: the unwrap of line 88 panics at the first sample without a segment
Resample(t) ==
    /\ pc[t] = "resample"
    /\ \E s \in {Samples(segments[t])} :
          IF \E i \in 1..GESTURE_RESOLUTION : s[i] = None
          THEN /\ panic' = [panic EXCEPT ![t] = "unwrap"]
               /\ pc' = [pc EXCEPT ![t] = "panicked"]
               /\ UNCHANGED <<resampled_path, prepared>>
          ELSE \E r \in {[i \in 1..GESTURE_RESOLUTION |-> s[i][1]]} :
               /\ resampled_path' = [resampled_path EXCEPT ![t] = r]
               /\ prepared' = [prepared EXCEPT ![t] = Some(r)]
               /\ pc' = [pc EXCEPT ![t] = ReturnTo(t)]
               /\ UNCHANGED panic
    /\ UNCHANGED <<script, caller, positions, dedup_positions, normalized_path, segments,
                   keys, result, returned, seen, statics>>

\* line 98: the ? operator
Try(t) ==
    /\ pc[t] = "try"
    /\ pc' = [pc EXCEPT ![t] = IF prepared[t] = None THEN "return" ELSE "deref"]
    /\ UNCHANGED <<script, caller, positions, locals, prepared, keys, result, panic,
                   returned, seen, statics>>

\* what a thread that reaches the Once of the lazy static in state o does
\* there: with no wait it takes part in the initialization as if it were alone
call_unsynchronized(o) == IF o = "complete" THEN "read" ELSE "run"

\* line 114, lazy_static!: the static is guarded by a Once.  The first thread
\* to reach it runs the initializer, a thread that reaches it meanwhile waits,
\* and a thread that reaches it afterwards reads the stored value
call_once(o) ==
    CASE o = "incomplete" -> "run"
      [] o = "running"    -> "wait"
      [] o = "complete"   -> "read"

\* line 100, GESTURES.iter(): the deref of the lazy static
Deref(t) ==
    /\ pc[t] = "deref"
    /\ call_once(once) # "wait"
    /\ IF call_once(once) = "run"
       THEN /\ once' = "running"
            /\ pc' = [pc EXCEPT ![t] = "initialize"]
       ELSE /\ pc' = [pc EXCEPT ![t] = "scan"]
            /\ UNCHANGED once
    /\ UNCHANGED <<script, caller, positions, locals, prepared, keys, result, panic,
                   returned, seen, lazy, builds>>

\* lines 115-160: the initializer, and the store of its value
Initialize(t) ==
    /\ pc[t] = "initialize"
    /\ lazy' = GESTURES
    /\ once' = "complete"
    /\ builds' = builds + 1
    /\ pc' = [pc EXCEPT ![t] = "scan"]
    /\ UNCHANGED <<script, caller, positions, locals, prepared, keys, result, panic,
                   returned, seen>>

\* lines 100-105
Scan(t) ==
    /\ pc[t] = "scan"
    /\ \E ks \in {Keys(lazy, prepared[t][1])} :
          /\ keys' = [keys EXCEPT ![t] = ks]
          /\ result' = [result EXCEPT ![t] = Some(lazy[MinByKey(ks, 2, Len(ks), 1)][1])]
    /\ seen' = [seen EXCEPT ![t] = lazy]
    /\ pc' = [pc EXCEPT ![t] = "return"]
    /\ UNCHANGED <<script, caller, positions, locals, prepared, panic, returned, statics>>

\* the call returns to the thread
Return(t) ==
    /\ pc[t] = "return"
    /\ returned' = [returned EXCEPT ![t] =
           Append(@, [fn |-> caller[t], positions |-> positions[t],
                      value |-> IF caller[t] = "from_positions" THEN prepared[t] ELSE result[t]])]
    /\ pc' = [pc EXCEPT ![t] = "idle"]
    /\ UNCHANGED <<script, caller, positions, locals, prepared, keys, result, panic,
                   seen, statics>>

(***************************************************************************)
(* Spec: one thread, one call of PreparedGesture::from_positions with any  *)
(* path of at most MaxLen points over Points.                              *)
(***************************************************************************)
MaxLen == 3
MinSubnormal == Pack(0, 1)
MaxFinite == InfMag - 1
Tenth == Div(FromInt(1), FromInt(10))
Points == {<<0, 0>>, <<0, One>>, <<One, 0>>, <<0, Tenth>>, <<MinSubnormal, 0>>,
           <<MaxFinite, 0>>, <<MaxFinite, One>>}
PathsOver(points) == UNION {[1..n -> points] : n \in 0..MaxLen}
Paths == PathsOver(Points)

\* one thread that makes the one call fn(p), for any p of paths
OneCall(fn, paths) == {<< <<CallOf(fn, p)>> >> : p \in paths}

Init == Start(OneCall("from_positions", Paths))

Next ==
    \/ \E t \in Threads : Call(t)
    \/ \E t \in Threads : DedupPositions(t)
    \/ \E t \in Threads : Normalize(t)
    \/ \E t \in Threads : CollectSegments(t)
    \/ \E t \in Threads : Resample(t)
    \/ \E t \in Threads : Return(t)

Spec == Init /\ [][Next]_vars

(***************************************************************************)
(* SpecClassify: one thread, one call of gesture_from_positions with the   *)
(* control points of a built-in gesture or with any stroke of at most      *)
(* MaxLen points over StrokePoints.                                        *)
(***************************************************************************)
StrokePoints == {<<0, 0>>, <<One, 0>>, <<One, One>>, <<MinSubnormal, 0>>}
Strokes == PathsOver(StrokePoints) \cup {Table[k][2] : k \in 1..Len(Table)}

InitClassify == Start(OneCall("gesture_from_positions", Strokes))

NextClassify ==
    \/ \E t \in Threads : Call(t)
    \/ \E t \in Threads : DedupPositions(t)
    \/ \E t \in Threads : Normalize(t)
    \/ \E t \in Threads : CollectSegments(t)
    \/ \E t \in Threads : Resample(t)
    \/ \E t \in Threads : Try(t)
    \/ \E t \in Threads : Deref(t)
    \/ \E t \in Threads : Initialize(t)
    \/ \E t \in Threads : Scan(t)
    \/ \E t \in Threads : Return(t)

SpecClassify == InitClassify /\ [][NextClassify]_vars

(***************************************************************************)
(* SpecInvariance: one thread classifies a shape and then its image under  *)
(* every transformation of Transformations.  A shape is a path of 2 points *)
(* with whole coordinates of at most MaxCoord, or the "down" line of the   *)
(* table.                                                                  *)
(***************************************************************************)
MaxCoord == 2
MaxScale == 3
Thousand == FromInt(1000)
SeventeenTenths == Div(FromInt(17), FromInt(10))

\* the image of the path under (x, y) -> (k*x + d[1], k*y + d[2])
Map(path, k, d) ==
    Collect([i \in 1..Len(path) |->
                <<Add(Mul(k, path[i][1]), d[1]), Add(Mul(k, path[i][2]), d[2])>>])

Grid == {<<FromInt(x), FromInt(y)>> : x, y \in 0..MaxCoord}
Shapes == [1..2 -> Grid] \cup {Table[1][2]}

\* scale factor and offset
Transformations ==
    << <<FromInt(MaxScale), <<Thousand, Thousand>> >>,
       <<SeventeenTenths, <<0, 0>> >> >>

ImagesOf(path) ==
    [n \in 1..Len(Transformations) |->
        CallOf("gesture_from_positions",
               Map(path, Transformations[n][1], Transformations[n][2]))]

InitInvariance ==
    Start({<< <<CallOf("gesture_from_positions", p)>> \o ImagesOf(p) >> : p \in Shapes})

SpecInvariance == InitInvariance /\ [][NextClassify]_vars

(***************************************************************************)
(* SpecLazy: NumThreads threads that each classify the "down" line of the  *)
(* table MaxCalls times, all of them starting before GESTURES exists.      *)
(***************************************************************************)
NumThreads == 2
MaxCalls == 2

Repeat(call, n) == [i \in 1..n |-> call]

InitLazy ==
    Start({[t \in 1..NumThreads |->
               Repeat(CallOf("gesture_from_positions", Table[1][2]), MaxCalls)]})

SpecLazy == InitLazy /\ [][NextClassify]_vars

(***************************************************************************)
(* Properties of from_positions, under Spec.                               *)
(***************************************************************************)
MinusOne == Neg(One)
Last(s) == s[Len(s)]
Finished(t) == pc[t] \in {"return", "idle"}

\* C5: a descriptor that from_positions produces has GESTURE_RESOLUTION points,
\* its first point is the first normalized point and its last point is the
\* last normalized point.
C5_DescriptorEndpoints ==
    \A t \in Threads :
        Finished(t) /\ prepared[t] # None =>
            /\ Len(prepared[t][1]) = GESTURE_RESOLUTION
            /\ PointEq(prepared[t][1][1], normalized_path[t][1])
            /\ PointEq(Last(prepared[t][1]), Last(normalized_path[t]))

\* the coordinates c of the normalized path of thread t
Coordinates(t, c) == {normalized_path[t][i][c] : i \in 1..Len(normalized_path[t])}
InUnitRange(v) == Le(MinusOne, v) /\ Le(v, One)
TouchesBothEnds(t, c) ==
    /\ \E v \in Coordinates(t, c) : Eq(v, MinusOne)
    /\ \E v \in Coordinates(t, c) : Eq(v, One)

\* C9: the normalized path has as many points as the deduplicated path, every
\* coordinate of it lies in [-1, 1], and on the axis of the larger extent the
\* least coordinate is -1 and the greatest is +1.
C9_NormalizedIntoUnitSquare ==
    \A t \in Threads :
        normalized_path[t] # <<>> =>
            /\ Len(normalized_path[t]) = Len(dedup_positions[t])
            /\ \A c \in 1..2 : \A v \in Coordinates(t, c) : InUnitRange(v)
            /\ IF Le(y_half_size(dedup_positions[t]), x_half_size(dedup_positions[t]))
               THEN TouchesBothEnds(t, 1)
               ELSE TouchesBothEnds(t, 2)

\* C10: for every output index the target arc length lies in the inclusive
\* range of some segment, so the lookup of line 77 never fails and the unwrap
\* of line 88 never panics.
C10_LookupResolves ==
    \A t \in Threads :
        /\ panic[t] # "unwrap"
        /\ pc[t] = "resample" =>
               \A i \in 0..(GESTURE_RESOLUTION - 1) :
                   Find(segments[t], Target(segments[t], i)) # 0

(***************************************************************************)
(* Properties of gesture_from_positions, under SpecClassify.               *)
(***************************************************************************)
\* no two points of the path differ: fewer than 2 points remain once
\* consecutive duplicates are collapsed
Collapses(path) == \A i, j \in 1..Len(path) : PointEq(path[i], path[j])
Classifying(t) == caller[t] = "gesture_from_positions"

\* C1: gesture_from_positions returns None for a path that collapses to fewer
\* than 2 points, and computes no distance for it.
C1_NoneForCollapsedPath ==
    \A t \in Threads :
        Classifying(t) /\ Collapses(positions[t]) =>
            /\ pc[t] \in {"dedup", "try", "return", "idle"}
            /\ keys[t] = <<>>
            /\ result[t] = None
            /\ pc[t] = "idle" => Last(returned[t]).value = None

C1_Witness ==
    \E t \in Threads :
        /\ pc[t] = "idle"
        /\ Len(positions[t]) = 3
        /\ Collapses(positions[t])
        /\ returned[t] # <<>>
        /\ Last(returned[t]).fn = "gesture_from_positions"
        /\ Last(returned[t]).value = None

\* no key is less than key j; no earlier key is minimal
Minimal(ks, j) == \A k \in 1..Len(ks) : ~Lt(ks[k], ks[j])
Earliest(ks, j) == \A k \in 1..(j - 1) : ~Minimal(ks, k)

\* C2: a path that yields a PreparedGesture gets the label of the entry at
\* minimal distance, the earliest such entry, and never None.
C2_NearestEarliestTemplate ==
    \A t \in Threads :
        /\ keys[t] # <<>> =>
               \E j \in 1..Len(lazy) :
                   /\ Minimal(keys[t], j)
                   /\ Earliest(keys[t], j)
                   /\ result[t] = Some(lazy[j][1])
        /\ Classifying(t) /\ Finished(t) /\ prepared[t] # None =>
               /\ keys[t] # <<>>
               /\ result[t] # None

\* a scan in which two entries tie at the minimal, finite distance
C2_Witness ==
    \E t \in Threads :
        /\ pc[t] = "idle"
        /\ keys[t] # <<>>
        /\ \E j, k \in 1..Len(lazy) :
               /\ j < k
               /\ Minimal(keys[t], j)
               /\ Minimal(keys[t], k)
               /\ Earliest(keys[t], j)
               /\ IsFinite(keys[t][j])
               /\ lazy[j][1] # lazy[k][1]
               /\ Last(returned[t]).value = Some(lazy[j][1])

\* C4: the control points of a built-in gesture classify as that gesture.
C4_TemplatesClassifyAsThemselves ==
    \A t \in Threads : \A k \in 1..Len(Table) :
        Classifying(t) /\ positions[t] = Table[k][2] =>
            /\ pc[t] # "panicked"
            /\ Finished(t) => result[t] = Some(Table[k][1])

\* the counter-clockwise square was classified
C4_Witness ==
    \E t \in Threads :
        /\ pc[t] = "idle"
        /\ positions[t] = <<P(0, 0), P(0, 100), P(100, 100), P(100, 0)>>
        /\ returned[t] # <<>>
        /\ Last(returned[t]).value = Some("rectangle")

\* C7: a stroke whose half-size is zero makes gesture_from_positions return
\* None, and no call panics.
C7_DegenerateReturnsNone ==
    \A t \in Threads :
        /\ pc[t] # "panicked"
        /\ /\ Classifying(t)
           /\ Len(dedup_positions[t]) >= 2
           /\ Eq(half_size(dedup_positions[t]), 0)
           /\ Finished(t)
           => result[t] = None

\* C8: distance is symmetric, zero between a descriptor and itself, and never
\* negative.
C8_DistanceSymmetricZero ==
    \A t \in Threads :
        pc[t] = "return" /\ keys[t] # <<>> =>
            /\ Eq(distance(prepared[t][1], prepared[t][1]), 0)
            /\ \A k \in 1..Len(lazy) :
                   /\ Eq(distance(lazy[k][2], prepared[t][1]), keys[t][k])
                   /\ Le(0, keys[t][k])

(***************************************************************************)
(* Invariance of the label, under SpecInvariance.                          *)
(***************************************************************************)
\* the value is a whole number of magnitude at most 2^22
Whole(v) ==
    /\ IsFinite(v)
    /\ Mag(v) <= Mag(FromInt(2^22))
    /\ \/ IsZero(v)
       \/ Exp(Mag(v)) >= 0
       \/ Man(Mag(v)) % 2^(-Exp(Mag(v))) = 0
WholePath(path) == \A i \in 1..Len(path) : Whole(path[i][1]) /\ Whole(path[i][2])

\* call j of the thread classified the image of the path of its call i under
\* transformation n
ImageUnder(t, i, j, n) ==
    returned[t][j].positions =
        Map(returned[t][i].positions, Transformations[n][1], Transformations[n][2])
SameLabel(t, i, j) == returned[t][i].value = returned[t][j].value

C6_LibraryBuiltOnce ==
    /\ builds <= 1
    /\ once = "complete" <=> builds = 1
    /\ once = "complete" => lazy = GESTURES
    /\ \A t \in Threads :
           /\ pc[t] = "scan" => once = "complete" /\ lazy = GESTURES
           /\ pc[t] = "initialize" => once = "running" /\ builds = 0
           /\ seen[t] \in {<<>>, GESTURES}
           /\ returned[t] # <<>> => seen[t] = GESTURES /\ builds = 1

\* every thread has made all its calls, the later ones after the collection
\* was built, and every scan iterated the one collection
C6_Witness ==
    /\ builds = 1
    /\ Cardinality(Threads) >= 2
    /\ \A t \in Threads :
           /\ pc[t] = "idle"
           /\ Len(returned[t]) >= 2
           /\ \A i \in 1..Len(returned[t]) : returned[t][i].value = Some("down")
           /\ seen[t] = lazy
====
